---- MODULE Spec2Model ----
(***************************************************************************)
(* Model of condition-analysis-web: the extraction of the condition series *)
(* from the uploaded CSV and the optional prior workbook (gui.py,          *)
(* read_data.py) and the rendering of the yearly sheets                    *)
(* (condition_workbook.py).                                                *)
(*                                                                         *)
(* Data representation                                                     *)
(*   - a polars Date is its physical value, the day number since           *)
(*     1970-01-01;                                                         *)
(*   - a nullable cell is a sequence: <<>> is null, <<v>> holds v;         *)
(*   - a DataFrame is the sequence of its rows; the columns                *)
(*       "日付" "体調" "コメント" "曜日" "土日判定"                         *)
(*     are the fields date, cond, comment, weekday, holiday;               *)
(*   - the aggregate frame keeps its column names in order (cols) next to  *)
(*     its rows, each row a sequence of nullable cells.                    *)
(*                                                                         *)
(* Inputs are drawn from the input contract: a CSV and a "data" sheet hold *)
(* records sorted by date, one per date, with a condition code 0..5 or     *)
(* none. What polars leaves unspecified (the row order of unique without   *)
(* maintain_order) is a choice among all outcomes.                         *)
(***************************************************************************)
EXTENDS Integers, Sequences, FiniteSets, TLC

\* Longest CSV series and longest prior ("data" sheet) series of the pipeline,
\* and longest sub-series handed to the frame functions.
MaxCsv == 2
MaxPrior == 2
MaxLen == 2

Null == <<>>
Some(v) == <<v>>

---------------------------------------------------------------------------
(* Calendar: what pl.date, pl.date_range and the .dt namespace compute.    *)

Years == {2023, 2024}

IsLeap(y) == (y % 4 = 0 /\ y % 100 # 0) \/ y % 400 = 0

DaysInMonth(y, m) ==
    IF m = 2 THEN (IF IsLeap(y) THEN 29 ELSE 28)
    ELSE IF m \in {4, 6, 9, 11} THEN 30 ELSE 31

LeapsBefore(y) == ((y - 1) \div 4) - ((y - 1) \div 100) + ((y - 1) \div 400)

RECURSIVE DaysBeforeMonth(_, _)
DaysBeforeMonth(y, m) ==
    IF m = 1 THEN 0 ELSE DaysBeforeMonth(y, m - 1) + DaysInMonth(y, m - 1)

\* pl.date(y, m, d): days since 1970-01-01
pl_date(y, m, d) ==
    365 * (y - 1970) + (LeapsBefore(y) - LeapsBefore(1970))
        + DaysBeforeMonth(y, m) + (d - 1)

\* The calendar date (year, month, day) of day number n, by counting up
CivilFromDays(n) ==
    LET y == CHOOSE yy \in (Years \cup {yy + 1 : yy \in Years}) :
                 pl_date(yy, 1, 1) <= n /\ n < pl_date(yy + 1, 1, 1)
        m == CHOOSE mm \in 1..12 :
                 pl_date(y, mm, 1) <= n /\ n < pl_date(y, mm, 1) + DaysInMonth(y, mm)
    IN  [year |-> y, month |-> m, day |-> n - pl_date(y, m, 1) + 1]

FirstDay == pl_date(CHOOSE y \in Years : \A z \in Years : y <= z, 1, 1)
LastDay == pl_date(CHOOSE y \in Years : \A z \in Years : y >= z, 12, 31)

\* CivilFromDays of every day of the modelled years, evaluated once:
\* Calendar[n - FirstDay + 1] is the date of day number n
Calendar ==
    <<>> \o [i \in 1..(LastDay - FirstDay + 1) |-> CivilFromDays(FirstDay + i - 1)]

dt_year(n) == Calendar[n - FirstDay + 1].year
dt_month(n) == Calendar[n - FirstDay + 1].month
dt_day(n) == Calendar[n - FirstDay + 1].day

\* .dt.weekday(): ISO weekday, Monday = 1 .. Sunday = 7 (1970-01-01 was a Thursday)
dt_weekday(n) == ((n + 3) % 7) + 1

\* pl.date_range(a, b): every day from a to b, both included
date_range(a, b) == [i \in 1..(b - a + 1) |-> a + (i - 1)]

---------------------------------------------------------------------------
(* Sequence helpers.                                                       *)

\* The concatenation of ss[lo..hi], by halves
RECURSIVE FlattenRange(_, _, _)
FlattenRange(ss, lo, hi) ==
    IF lo > hi THEN <<>>
    ELSE IF lo = hi THEN ss[lo]
    ELSE LET mid == (lo + hi) \div 2
         IN  FlattenRange(ss, lo, mid) \o FlattenRange(ss, mid + 1, hi)

Flatten(ss) == FlattenRange(ss, 1, Len(ss))

RECURSIVE SortedSeq(_)
SortedSeq(S) ==
    IF S = {} THEN <<>>
    ELSE LET m == CHOOSE x \in S : \A y \in S : x <= y
         IN  <<m>> \o SortedSeq(S \ {m})

Dates(df) == {df[i].date : i \in DOMAIN df}

IsSortedByDate(df) ==
    \A i \in DOMAIN df : \A j \in DOMAIN df : i < j => df[i].date <= df[j].date

HasUniqueDates(df) ==
    \A i \in DOMAIN df : \A j \in DOMAIN df : i # j => df[i].date # df[j].date

---------------------------------------------------------------------------
(* condition_workbook.py                                                   *)

\* df.group_by_dynamic("日付", every=duration, period=duration): the start of
\* the window ("1y": the year, "1mo": the month) a date falls in
WindowStart(n, duration) ==
    IF duration = "1y" THEN pl_date(dt_year(n), 1, 1)
    ELSE n - (dt_day(n) - 1)

\* The groups of group_by_dynamic on a frame sorted by date: one per window
\* that holds a row, in window order, each the rows of the frame in the window
\* in the frame's order.
group_by_dynamic(df, duration) ==
    LET keyed == <<>> \o [i \in DOMAIN df |->
                     [key |-> WindowStart(df[i].date, duration), row |-> df[i]]]
        starts == SortedSeq({keyed[i].key : i \in DOMAIN keyed})
    IN  [k \in DOMAIN starts |->
            LET members == SelectSeq(keyed, LAMBDA z : z.key = starts[k])
            IN  [key  |-> starts[k],
                 rows |-> [j \in DOMAIN members |-> members[j].row]]]

\* isinstance(yearly_date, datetime.datetime) is false of a date
IsDateKey_Datetime(k) == k \notin Int

\* isinstance(yearly_date, date): the key of a Date column is a date
IsDateKey(k) == k \in Int

_iter_yearly_data(df, duration) ==
    SelectSeq(group_by_dynamic(df, duration), LAMBDA g : IsDateKey(g.key))

weekday_mapping == <<"getsu", "ka", "sui", "moku", "kin", "do", "nichi">>

holiday_mapping_Shifted == [x \in 1..7 |-> IF x \in {5, 6} THEN 5 ELSE 0]

holiday_mapping == [x \in 1..7 |-> IF x \in {6, 7} THEN 5 ELSE 0]

\* how="inner"
LeftJoinOnDate_Inner(left, df) ==
    Flatten([i \in DOMAIN left |->
        LET ms == SelectSeq(df, LAMBDA r : r.date = left[i])
        IN  [k \in DOMAIN ms |->
                [date |-> left[i], cond |-> ms[k].cond,
                 comment |-> ms[k].comment]]])

\* yearly_df.join(df, on="日付", how="left"): per left row, one row per match
\* in df, or one row of nulls
LeftJoinOnDate(left, df) ==
    Flatten([i \in DOMAIN left |->
        LET ms == SelectSeq(df, LAMBDA r : r.date = left[i])
        IN  IF ms = <<>>
            THEN <<[date |-> left[i], cond |-> Null, comment |-> Null]>>
            ELSE [k \in DOMAIN ms |->
                    [date |-> left[i], cond |-> ms[k].cond,
                     comment |-> ms[k].comment]]])

WithWeekdayColumns(joined) ==
    [i \in DOMAIN joined |->
        [date    |-> joined[i].date,
         cond    |-> joined[i].cond,
         comment |-> joined[i].comment,
         weekday |-> weekday_mapping[dt_weekday(joined[i].date)],
         holiday |-> holiday_mapping[dt_weekday(joined[i].date)]]]

_prepare_yearly_frame_To30th(df, year) ==
    WithWeekdayColumns(
        LeftJoinOnDate(date_range(pl_date(year, 1, 1), pl_date(year, 12, 30)), df))

_prepare_yearly_frame(df, year) ==
    WithWeekdayColumns(
        LeftJoinOnDate(date_range(pl_date(year, 1, 1), pl_date(year, 12, 31)), df))

\* df.group_by("体調").len(): the number of rows per value of 体調 (null too)
GroupByLen(df) ==
    [c \in {df[i].cond : i \in DOMAIN df} |->
        Cardinality({i \in DOMAIN df : df[i].cond = c})]

AggLabels == <<"up", "upright", "right", "downright", "down", "downdown">>
AggCodes == <<5, 4, 3, 2, 1, 0>>

\* agg_df.join(counts, on="体調", how="left"): a new column, null where the
\* code has no group (a null key never matches)
JoinCounts(agg, name, counts) ==
    [cols |-> Append(agg.cols, name),
     rows |-> [i \in DOMAIN agg.rows |->
                 Append(agg.rows[i],
                        IF agg.rows[i][2] \in DOMAIN counts
                        THEN Some(counts[agg.rows[i][2]])
                        ELSE Null)]]

jp_month_str(n) == ToString(dt_month(n)) \o "gatsu"

\* monthly_df.group_by("体調").len(jp_month_str)
MonthCounts_Yearly(yearly_df, monthly_df) == GroupByLen(yearly_df)

MonthCounts(yearly_df, monthly_df) == GroupByLen(monthly_df)

RECURSIVE JoinMonths(_, _, _)
JoinMonths(agg, yearly_df, groups) ==
    IF groups = <<>> THEN agg
    ELSE JoinMonths(
            JoinCounts(agg, jp_month_str(Head(groups).key),
                       MonthCounts(yearly_df, Head(groups).rows)),
            yearly_df, Tail(groups))

_prepare_agg_frame(yearly_df) ==
    LET skeleton == [cols |-> <<"choshi", "taicho">>,
                     rows |-> [i \in 1..6 |-> <<Some(AggLabels[i]), Some(AggCodes[i])>>]]
    IN  JoinMonths(JoinCounts(skeleton, "nenkan", GroupByLen(yearly_df)),
                   yearly_df, _iter_yearly_data(yearly_df, "1mo"))

\* agg_df.fill_null(strategy="zero")
fill_null_zero_Keep(agg) == agg

fill_null_zero(agg) ==
    [cols |-> agg.cols,
     rows |-> [i \in DOMAIN agg.rows |->
                 [j \in DOMAIN agg.rows[i] |->
                     IF agg.rows[i][j] = Null THEN Some(0) ELSE agg.rows[i][j]]]]

\* _write_frame: write_excel at position "A1" puts the header in row 0 of the
\* sheet (rows and columns counted from 0, as xlsxwriter counts them) and the
\* i-th row of the frame (from 1) i rows below it
write_frame_row(i) == 0 + i

\* The column each column of the yearly frame is written to
write_frame_col ==
    [date |-> 0, cond |-> 1, comment |-> 2, weekday |-> 3, holiday |-> 4]

\* A variant that names the sheet by the month of the group key
sheet_name_ByMonth(yearly_date) == ToString(dt_month(yearly_date))

\* _write_yearly_data: name=str(yearly_date.year)
sheet_name(yearly_date) == ToString(dt_year(yearly_date))

\* The chart of the i-th (from 0) month group: the cell rows its series refer
\* to and the cell it is inserted at
MonthlyChart(i, monthly_date, monthly_df) ==
    [title      |-> jp_month_str(monthly_date),
     start_row  |-> monthly_df[1].cell_row,
     end_row    |-> monthly_df[Len(monthly_df)].cell_row,
     date_cnt   |-> Len(monthly_df),
     line       |-> [categories |-> <<monthly_df[1].cell_row, 0,
                                      monthly_df[Len(monthly_df)].cell_row, 0>>,
                     values     |-> <<monthly_df[1].cell_row, 1,
                                      monthly_df[Len(monthly_df)].cell_row, 1>>],
     base       |-> [categories |-> <<monthly_df[1].cell_row, 0,
                                      monthly_df[Len(monthly_df)].cell_row, 0>>,
                     values     |-> <<monthly_df[1].cell_row, 4,
                                      monthly_df[Len(monthly_df)].cell_row, 4>>],
     insert_row |-> 8 + ((i \div 2) * 8),
     insert_col |-> 5 + ((i % 2) * 11)]

RECURSIVE ChartsOf(_, _)
ChartsOf(i, gs) ==
    IF gs = <<>> THEN <<>>
    ELSE <<MonthlyChart(i, Head(gs).key, Head(gs).rows)>>
            \o ChartsOf(i + 1, Tail(gs))

\* A variant that numbers the rows from 0, the default offset
with_row_index_FromZero(yearly_df) ==
    [i \in DOMAIN yearly_df |-> [date |-> yearly_df[i].date, cell_row |-> i - 1]]

\* yearly_df.with_row_index("cell_row", 1)
with_row_index(yearly_df) ==
    [i \in DOMAIN yearly_df |-> [date |-> yearly_df[i].date, cell_row |-> i]]

_insert_monthly_trend_chart(yearly_df) ==
    ChartsOf(0, _iter_yearly_data(with_row_index(yearly_df), "1mo"))

---------------------------------------------------------------------------
(* read_data.py and gui.py                                                 *)

\* The lines of a Rhythm Care export: the title, the header, the sub-header
\* and one line per record
CsvLines(series) ==
    <<<<"RhythmCare">>, <<"date", "cond", "cond">>, <<"", "", "comment">>>>
        \o [i \in DOMAIN series |->
                <<series[i].date, series[i].cond, series[i].comment>>]

CsvSchema == <<"Date", "Int8", "String">>

\* pl.read_csv(skip_rows=1, skip_rows_after_header=1, schema=...): the title is
\* skipped, the next line is the header, the line after it is skipped, the
\* rest are the rows
read_condition_csv(lines) ==
    LET data == SubSeq(lines, 4, Len(lines))
    IN  [i \in DOMAIN data |->
            [date |-> data[i][1], cond |-> data[i][2], comment |-> data[i][3]]]

\* pl.read_excel(sheet_name="data"): the sheets of that name (none: ValueError)
DataSheets(workbook) == SelectSeq(workbook, LAMBDA sh : sh.name = "data")

\* left.merge_sorted(right, key="日付"): the merge of two sorted frames, the
\* left row first where the keys are equal
RECURSIVE merge_sorted(_, _)
merge_sorted(left, right) ==
    IF left = <<>> THEN right
    ELSE IF right = <<>> THEN left
    ELSE IF Head(left).date <= Head(right).date
         THEN <<Head(left)>> \o merge_sorted(Tail(left), right)
         ELSE <<Head(right)>> \o merge_sorted(left, Tail(right))

\* keep="first"
KeepOfDate_First(df, i) == \A j \in DOMAIN df : df[j].date = df[i].date => i <= j

\* .unique(subset="日付", keep="last") keeps row i when no later row has its date
KeepOfDate(df, i) == \A j \in DOMAIN df : df[j].date = df[i].date => j <= i

\* The rows unique keeps, in the frame's order
UniqueKept(df) ==
    LET idx == SortedSeq({i \in DOMAIN df : KeepOfDate(df, i)})
    IN  [k \in DOMAIN idx |-> df[idx[k]]]

\* .unique() is called without maintain_order=True: the rows it keeps come in
\* an order polars leaves unspecified
UniqueResults(df) ==
    LET kept == UniqueKept(df)
    IN  {[i \in DOMAIN kept |-> kept[p[i]]] : p \in Permutations(DOMAIN kept)}

\* The exception classes of "except (FileNotFoundError, ValueError, OSError)"
CaughtByExtract == {"FileNotFoundError", "ValueError", "OSError"}

---------------------------------------------------------------------------
(* Inputs.                                                                 *)

\* Sorted series with one record per date, at most n records, over the given
\* dates and (cond, comment) values
SeriesOver(dates, values, n) ==
    UNION {
        LET ds == SortedSeq(D)
        IN  {[i \in DOMAIN ds |->
                [date |-> ds[i], cond |-> v[i].cond, comment |-> v[i].comment]]
             : v \in [DOMAIN ds -> values]}
        : D \in {D \in SUBSET dates : Cardinality(D) <= n}}

CondCodes == 0..5

\* The dates records are drawn from: a year's last day (a Sunday), the next
\* year's first day, and a leap day
InputDates == {pl_date(2023, 12, 31), pl_date(2024, 1, 1), pl_date(2024, 2, 29)}

\* A record's cells: any code or none with a comment, a code without comment,
\* neither
FrameValues ==
    {[cond |-> c, comment |-> Some("c1")] : c \in {Null} \cup {Some(k) : k \in CondCodes}}
        \cup {[cond |-> Some(3), comment |-> Null], [cond |-> Null, comment |-> Null]}

PipelineValues ==
    {[cond |-> Some(2), comment |-> Some("c1")],
     [cond |-> Some(5), comment |-> Null]}

\* The workbooks uploaded as the prior file: a "data" sheet with the CSV's
\* columns, a "data" sheet whose 体調 column has another dtype, no "data" sheet
PriorWorkbook(kind, series) ==
    IF kind = "no_data_sheet"
    THEN <<[name |-> "Sheet1", schema |-> CsvSchema, rows |-> series]>>
    ELSE <<[name |-> "data",
            schema |-> IF kind = "ok" THEN CsvSchema
                       ELSE <<"Date", "Int64", "String">>,
            rows |-> series]>>

VARIABLES
    pc,            \* where output_excel_bytes is
    csv_file,      \* the uploaded CSV: Null, or Some(its lines)
    xlsx_file,     \* the uploaded prior workbook: Null, or Some(its sheets)
    condition_df,  \* the frame extract_condition_data returns
    st_error,      \* the message shown by st.error: Null, or Some(exception)
    raised,        \* the exception that left output_excel_bytes: Null or Some
    sheets,        \* the worksheets of the ConditionWorkbook, in creation order
    todo,          \* the groups _write_yearly_data has still to go through
    returned,      \* whether output_excel_bytes returned the workbook's bytes
    fpc, year, df, yearly_df, agg_df, written_agg, groups, charts

pvars == <<pc, csv_file, xlsx_file, condition_df, st_error, raised, sheets, todo,
           returned>>

fvars == <<fpc, year, df, yearly_df, agg_df, written_agg, groups, charts>>

vars == <<pvars, fvars>>

FrameIdle ==
    /\ fpc = "idle"
    /\ year = 0
    /\ df = <<>>
    /\ yearly_df = <<>>
    /\ agg_df = [cols |-> <<>>, rows |-> <<>>]
    /\ written_agg = [cols |-> <<>>, rows |-> <<>>]
    /\ groups = <<>>
    /\ charts = <<>>

PipelineIdle ==
    /\ pc = "idle"
    /\ csv_file = Null
    /\ xlsx_file = Null
    /\ condition_df = <<>>
    /\ st_error = Null
    /\ raised = Null
    /\ sheets = <<>>
    /\ todo = <<>>
    /\ returned = FALSE

Init ==
    /\ pc = "start"
    /\ \/ csv_file = Null
       \/ \E s \in SeriesOver(InputDates, PipelineValues, MaxCsv) :
             csv_file = Some(CsvLines(s))
    /\ \/ xlsx_file = Null
       \/ xlsx_file = Some(PriorWorkbook("no_data_sheet", <<>>))
       \/ \E kind \in {"ok", "schema_mismatch"} :
             \E s \in SeriesOver(InputDates, PipelineValues, MaxPrior) :
                xlsx_file = Some(PriorWorkbook(kind, s))
    /\ condition_df = <<>>
    /\ st_error = Null
    /\ raised = Null
    /\ sheets = <<>>
    /\ todo = <<>>
    /\ returned = FALSE
    /\ FrameIdle

\* extract_condition_data: no CSV
ExtractNoCsv ==
    /\ pc = "start"
    /\ csv_file = Null
    /\ raised' = Some("ValueError")
    /\ pc' = "raised"
    /\ UNCHANGED fvars
    /\ UNCHANGED <<csv_file, xlsx_file, condition_df, st_error, sheets, todo,
                   returned>>

\* extract_condition_data: no prior workbook
ExtractCsvOnly ==
    /\ pc = "start"
    /\ csv_file # Null
    /\ xlsx_file = Null
    /\ condition_df' = read_condition_csv(csv_file[1])
    /\ pc' = "extracted"
    /\ UNCHANGED fvars
    /\ UNCHANGED <<csv_file, xlsx_file, st_error, raised, sheets, todo, returned>>

\* extract_condition_data: the prior workbook is read and merged
ExtractMerged ==
    /\ pc = "start"
    /\ csv_file # Null
    /\ xlsx_file # Null
    /\ DataSheets(xlsx_file[1]) # <<>>
    /\ DataSheets(xlsx_file[1])[1].schema = CsvSchema
    /\ condition_df' \in
          UniqueResults(merge_sorted(DataSheets(xlsx_file[1])[1].rows,
                                     read_condition_csv(csv_file[1])))
    /\ pc' = "extracted"
    /\ UNCHANGED fvars
    /\ UNCHANGED <<csv_file, xlsx_file, st_error, raised, sheets, todo, returned>>

\* extract_condition_data: read_condition_xlsx or merge_sorted raises e. A
\* missing "data" sheet is read_excel's ValueError; frames of different
\* schemas are merge_sorted's polars SchemaError, no subclass of ValueError.
ExtractPriorFails ==
    /\ pc = "start"
    /\ csv_file # Null
    /\ xlsx_file # Null
    /\ \/ DataSheets(xlsx_file[1]) = <<>>
       \/ /\ DataSheets(xlsx_file[1]) # <<>>
          /\ DataSheets(xlsx_file[1])[1].schema # CsvSchema
    /\ LET e == IF DataSheets(xlsx_file[1]) = <<>>
                THEN "ValueError" ELSE "SchemaError"
       IN  IF e \in CaughtByExtract
           THEN /\ st_error' = Some(e)
                /\ condition_df' = read_condition_csv(csv_file[1])
                /\ pc' = "extracted"
                /\ UNCHANGED raised
           ELSE /\ raised' = Some(e)
                /\ pc' = "raised"
                /\ UNCHANGED <<st_error, condition_df>>
    /\ UNCHANGED fvars
    /\ UNCHANGED <<csv_file, xlsx_file, sheets, todo, returned>>

\* output_excel: self._write_raw_data(df, "data")
WriteRawData ==
    /\ pc = "extracted"
    /\ sheets' = <<[name |-> "data", frame |-> condition_df,
                    agg |-> [cols |-> <<>>, rows |-> <<>>], charts |-> <<>>]>>
    /\ pc' = "raw_written"
    /\ UNCHANGED fvars
    /\ UNCHANGED <<csv_file, xlsx_file, condition_df, st_error, raised, todo,
                   returned>>

\* _write_yearly_data: the generator starts; group_by_dynamic refuses a frame
\* whose 日付 column is not sorted
IterYearlyData ==
    /\ pc = "raw_written"
    /\ IF IsSortedByDate(condition_df)
       THEN /\ todo' = _iter_yearly_data(condition_df, "1y")
            /\ pc' = "yearly"
            /\ UNCHANGED raised
       ELSE /\ raised' = Some("InvalidOperationError")
            /\ pc' = "raised"
            /\ UNCHANGED todo
    /\ UNCHANGED fvars
    /\ UNCHANGED <<csv_file, xlsx_file, condition_df, st_error, sheets, returned>>

\* _write_yearly_data: one pass of the loop
WriteYearlySheet ==
    /\ pc = "yearly"
    /\ todo # <<>>
    /\ LET yearly_date == Head(todo).key
           name == sheet_name(yearly_date)
           frame == _prepare_yearly_frame(Head(todo).rows, dt_year(yearly_date))
       IN  IF \E i \in DOMAIN sheets : sheets[i].name = name
           THEN /\ raised' = Some("DuplicateWorksheetName")
                /\ pc' = "raised"
                /\ UNCHANGED <<sheets, todo>>
           ELSE /\ sheets' = Append(sheets,
                        [name |-> name,
                         frame |-> frame,
                         agg |-> fill_null_zero(_prepare_agg_frame(frame)),
                         charts |-> _insert_monthly_trend_chart(frame)])
                /\ todo' = Tail(todo)
                /\ UNCHANGED <<pc, raised>>
    /\ UNCHANGED fvars
    /\ UNCHANGED <<csv_file, xlsx_file, condition_df, st_error, returned>>

\* output_excel_bytes: the workbook is closed and its bytes are returned
ReturnBytes ==
    /\ pc = "yearly"
    /\ todo = <<>>
    /\ returned' = TRUE
    /\ pc' = "done"
    /\ UNCHANGED fvars
    /\ UNCHANGED <<csv_file, xlsx_file, condition_df, st_error, raised, sheets,
                   todo>>

Next ==
    \/ ExtractNoCsv
    \/ ExtractCsvOnly
    \/ ExtractMerged
    \/ ExtractPriorFails
    \/ WriteRawData
    \/ IterYearlyData
    \/ WriteYearlySheet
    \/ ReturnBytes

Spec == Init /\ [][Next]_vars

FrameInit ==
    /\ fpc = "start"
    /\ year \in Years
    /\ df \in SeriesOver(InputDates, FrameValues, MaxLen)
    /\ yearly_df = <<>>
    /\ agg_df = [cols |-> <<>>, rows |-> <<>>]
    /\ written_agg = [cols |-> <<>>, rows |-> <<>>]
    /\ groups = <<>>
    /\ charts = <<>>
    /\ PipelineIdle

\* list(self._iter_yearly_data(df, "1y"))
PartitionByYear ==
    /\ fpc = "start"
    /\ groups' = _iter_yearly_data(df, "1y")
    /\ fpc' = "by_year"
    /\ UNCHANGED <<pvars, year, df, yearly_df, agg_df, written_agg, charts>>

\* yearly_df = self._prepare_yearly_frame(df, year)
PrepareYearlyFrame ==
    /\ fpc = "start"
    /\ yearly_df' = _prepare_yearly_frame(df, year)
    /\ fpc' = "frame"
    /\ UNCHANGED <<pvars, year, df, agg_df, written_agg, groups, charts>>

\* list(self._iter_yearly_data(yearly_df, "1mo"))
PartitionByMonth ==
    /\ fpc = "frame"
    /\ groups' = _iter_yearly_data(yearly_df, "1mo")
    /\ fpc' = "by_month"
    /\ UNCHANGED <<pvars, year, df, yearly_df, agg_df, written_agg, charts>>

\* self._write_yearly_agg_data(yearly_df, sheet_name)
WriteYearlyAggData ==
    /\ fpc = "frame"
    /\ agg_df' = _prepare_agg_frame(yearly_df)
    /\ written_agg' = fill_null_zero(agg_df')
    /\ fpc' = "agg"
    /\ UNCHANGED <<pvars, year, df, yearly_df, groups, charts>>

\* self._insert_monthly_trend_chart(yearly_df, sheet_name)
InsertMonthlyTrendChart ==
    /\ fpc = "agg"
    /\ charts' = _insert_monthly_trend_chart(yearly_df)
    /\ fpc' = "charts"
    /\ UNCHANGED <<pvars, year, df, yearly_df, agg_df, written_agg, groups>>

FrameNext ==
    \/ PartitionByYear
    \/ PrepareYearlyFrame
    \/ PartitionByMonth
    \/ WriteYearlyAggData
    \/ InsertMonthlyTrendChart

FrameSpec == FrameInit /\ [][FrameNext]_vars

---------------------------------------------------------------------------
(* Properties of the extraction (Spec).                                    *)

\* The series read from the CSV and from the prior workbook's "data" sheet
Incoming == read_condition_csv(csv_file[1])
Prior == DataSheets(xlsx_file[1])[1].rows

PriorReadable ==
    /\ xlsx_file # Null
    /\ DataSheets(xlsx_file[1]) # <<>>
    /\ DataSheets(xlsx_file[1])[1].schema = CsvSchema

\* extract_condition_data has run with both files readable
MergedPath == pc # "start" /\ csv_file # Null /\ PriorReadable

\* extract_condition_data has run on a prior workbook that cannot be merged
FailedPath == pc # "start" /\ csv_file # Null /\ xlsx_file # Null /\ ~PriorReadable

\* C1: the merge of the prior and the incoming series has exactly the dates of
\* both, and at every date of the incoming series it carries the incoming
\* record (the newest wins).
C1_MergeIsUnionNewestWins ==
    MergedPath =>
        /\ Dates(condition_df) = Dates(Prior) \cup Dates(Incoming)
        /\ \A i \in DOMAIN condition_df : \A j \in DOMAIN Incoming :
              Incoming[j].date = condition_df[i].date =>
                  /\ condition_df[i].cond = Incoming[j].cond
                  /\ condition_df[i].comment = Incoming[j].comment

\* A merge where a date of both series has different records in them and the
\* prior series has a date of its own
C1_Witness ==
    /\ MergedPath
    /\ \E i \in DOMAIN Prior : \E j \in DOMAIN Incoming :
          /\ Prior[i].date = Incoming[j].date
          /\ Prior[i].cond # Incoming[j].cond
          /\ Prior[i].comment # Incoming[j].comment
    /\ \E i \in DOMAIN Prior : Prior[i].date \notin Dates(Incoming)

\* C2: on every path the series extract_condition_data returns is sorted
\* ascending by date and has at most one record per date.
C2_ReturnedSeriesSortedUnique ==
    (pc \notin {"start", "raised"} \/ (pc = "raised" /\ sheets # <<>>)) =>
        /\ IsSortedByDate(condition_df)
        /\ HasUniqueDates(condition_df)

\* C3: a prior workbook that cannot be read or merged never aborts the
\* pipeline: a warning is shown and the series is the one read from the CSV.
C3_PriorFailureNeverAborts ==
    FailedPath =>
        /\ pc # "raised"
        /\ st_error # Null
        /\ condition_df = Incoming

\* C4: with the CSV missing or without data records the pipeline ends in an
\* error and returns no workbook.
C4_NoWorkbookFromMissingOrEmptyCsv ==
    (csv_file = Null \/ Incoming = <<>>) => (pc # "done" /\ ~returned)

---------------------------------------------------------------------------
(* Properties of the rendered workbook (Spec).                             *)

SheetNames == [i \in DOMAIN sheets |-> sheets[i].name]

\* "data", then the years of the dates of the series as text, ascending
ExpectedSheetNames ==
    LET ys == SortedSeq({dt_year(d) : d \in Dates(condition_df)})
    IN  <<"data">> \o [i \in DOMAIN ys |-> ToString(ys[i])]

\* C11: the workbook output_excel builds from a series has the sheet "data"
\* first, holding the series as given, and after it one sheet per year that
\* occurs among the dates of the series, named by the year as text, in
\* ascending order: the sheets created so far are always the first of that
\* list, the returned workbook has all of it, no name occurs twice, and
\* rendering a series sorted by date never raises.
C11_SheetsAreDataThenYears ==
    sheets # <<>> =>
        /\ Len(sheets) <= Len(ExpectedSheetNames)
        /\ SheetNames = SubSeq(ExpectedSheetNames, 1, Len(sheets))
        /\ sheets[1].frame = condition_df
        /\ \A i \in DOMAIN sheets : \A j \in DOMAIN sheets :
                i # j => sheets[i].name # sheets[j].name
        /\ pc = "done" => Len(sheets) = Len(ExpectedSheetNames)
        /\ IsSortedByDate(condition_df) => pc # "raised"

\* A returned workbook of a series that spans two years, a year with no day
\* of the series (none before 2023, none after 2024) having no sheet
C11_Witness ==
    /\ pc = "done"
    /\ returned
    /\ Len(condition_df) >= 2
    /\ SheetNames = <<"data", "2023", "2024">>

\* The sheet rows that hold the rows of month k of a yearly frame
MonthSheetRows(frame, k) ==
    {write_frame_row(i) : i \in {j \in DOMAIN frame : dt_month(frame[j].date) = k}}

\* The cell the k-th chart of a sheet is anchored at
Anchor(k) == <<8 + 8 * ((k - 1) \div 2), 5 + 11 * ((k - 1) % 2)>>

\* The charts cs are the twelve monthly charts of the sheet that holds frame
ChartsFollowMonths(frame, cs) ==
    /\ Len(cs) = 12
    /\ \A k \in 1..12 :
          LET c == cs[k]
          IN  /\ c.title = ToString(k) \o "gatsu"
              /\ c.start_row..c.end_row = MonthSheetRows(frame, k)
              /\ c.start_row <= c.end_row
              /\ c.line.categories =
                     <<c.start_row, write_frame_col.date, c.end_row, write_frame_col.date>>
              /\ c.line.values =
                     <<c.start_row, write_frame_col.cond, c.end_row, write_frame_col.cond>>
              /\ c.base.categories = c.line.categories
              /\ c.base.values =
                     <<c.start_row, write_frame_col.holiday, c.end_row, write_frame_col.holiday>>
              /\ <<c.insert_row, c.insert_col>> = Anchor(k)
    /\ cs[1].start_row = write_frame_row(1)
    /\ \A k \in 1..11 : cs[k + 1].start_row = cs[k].end_row + 1
    /\ cs[12].end_row = write_frame_row(Len(frame))
    /\ \A k \in 1..12 : \A l \in 1..12 :
          k # l => <<cs[k].insert_row, cs[k].insert_col>> # <<cs[l].insert_row, cs[l].insert_col>>
    /\ {<<cs[k].insert_row, cs[k].insert_col>> : k \in 1..12}
          = {<<8 + 8 * r, 5 + 11 * q>> : r \in 0..5, q \in 0..1}

---------------------------------------------------------------------------
(* Properties of the yearly frame, the aggregate and the partition         *)
(* (FrameSpec).                                                            *)

\* yearly_df holds the grid of year built from df
FrameBuilt == fpc \in {"frame", "by_month", "agg", "charts"}

\* agg_df and written_agg hold the aggregate of yearly_df
AggBuilt == fpc \in {"agg", "charts"}

Present(rows) == {i \in DOMAIN rows : rows[i].cond # Null}

\* The calendar date of day number n
CivilOf(n) == [year |-> dt_year(n), month |-> dt_month(n), day |-> dt_day(n)]

\* C5: the grid has one row per calendar day of the year, from January 1 to
\* December 31 in ascending order without gaps: 366 rows in a leap year, 365
\* otherwise.
C5_GridIsTheWholeYear ==
    FrameBuilt =>
        /\ Len(yearly_df) = IF IsLeap(year) THEN 366 ELSE 365
        /\ CivilOf(yearly_df[1].date) = [year |-> year, month |-> 1, day |-> 1]
        /\ CivilOf(yearly_df[Len(yearly_df)].date)
              = [year |-> year, month |-> 12, day |-> 31]
        /\ \A i \in 1..(Len(yearly_df) - 1) :
              yearly_df[i + 1].date = yearly_df[i].date + 1

\* The grid of a leap year built from the empty series
C5_Witness == fpc = "frame" /\ IsLeap(year) /\ df = <<>>

\* C6: the row of a date carries the condition and comment of the series'
\* record of that date, both are absent when the series has none, every day
\* of the year has its row and every record of the series dated within the
\* year is in the grid.
C6_GridCarriesTheRecords ==
    FrameBuilt =>
        /\ \A i \in DOMAIN yearly_df :
              IF \E j \in DOMAIN df : df[j].date = yearly_df[i].date
              THEN \A j \in DOMAIN df :
                      df[j].date = yearly_df[i].date =>
                          /\ yearly_df[i].cond = df[j].cond
                          /\ yearly_df[i].comment = df[j].comment
              ELSE yearly_df[i].cond = Null /\ yearly_df[i].comment = Null
        /\ (pl_date(year, 1, 1)..pl_date(year, 12, 31)) \subseteq Dates(yearly_df)
        /\ \A j \in DOMAIN df :
              dt_year(df[j].date) = year =>
                  \E i \in DOMAIN yearly_df :
                      /\ yearly_df[i].date = df[j].date
                      /\ yearly_df[i].cond = df[j].cond
                      /\ yearly_df[i].comment = df[j].comment

\* A grid with a record of the year that has a condition and a comment, and
\* a record of the series dated in another year
C6_Witness ==
    /\ fpc = "frame"
    /\ \E j \in DOMAIN df :
          dt_year(df[j].date) = year /\ df[j].cond # Null /\ df[j].comment # Null
    /\ \E j \in DOMAIN df : dt_year(df[j].date) # year

\* The ISO weekday (Monday = 1 .. Sunday = 7) of day number n, from its
\* calendar date by Sakamoto's rule
IsoWeekdayOfCivil(n) ==
    LET c == CivilOf(n)
        t == <<0, 3, 2, 5, 0, 3, 5, 1, 4, 6, 2, 4>>
        y == IF c.month < 3 THEN c.year - 1 ELSE c.year
        w == (y + (y \div 4) - (y \div 100) + (y \div 400) + t[c.month] + c.day) % 7
    IN  IF w = 0 THEN 7 ELSE w

\* C7: in every row weekend_flag is 5 exactly on Saturdays and Sundays and 0
\* otherwise, and weekday_name is the symbol of the date's ISO weekday in the
\* Monday..Sunday mapping, whether or not the date has a record.
C7_WeekdayColumnsFollowTheDate ==
    FrameBuilt =>
        \A i \in DOMAIN yearly_df :
            LET w == IsoWeekdayOfCivil(yearly_df[i].date)
            IN  /\ yearly_df[i].holiday = (IF w \in {6, 7} THEN 5 ELSE 0)
                /\ yearly_df[i].weekday
                      = <<"getsu", "ka", "sui", "moku", "kin", "do", "nichi">>[w]

\* A grid with a Sunday that has a record and a Saturday that has none
C7_Witness ==
    /\ fpc = "frame"
    /\ \E i \in DOMAIN yearly_df :
          IsoWeekdayOfCivil(yearly_df[i].date) = 7 /\ yearly_df[i].cond # Null
    /\ \E i \in DOMAIN yearly_df :
          IsoWeekdayOfCivil(yearly_df[i].date) = 6 /\ yearly_df[i].cond = Null

\* The sum of column j of an aggregate frame, a null cell counting 0
RECURSIVE SumCells(_, _, _)
SumCells(agg, j, i) ==
    IF i = 0 THEN 0
    ELSE (IF agg.rows[i][j] = Null THEN 0 ELSE agg.rows[i][j][1])
            + SumCells(agg, j, i - 1)

ColumnSum(agg, j) == SumCells(agg, j, Len(agg.rows))

MonthColumn(m) == ToString(m) \o "gatsu"

\* C8: the yearly column sums to the number of grid rows with a condition,
\* and each month's column to the number of that month's rows with one.
C8_ColumnSumsCountPresentRows ==
    AggBuilt =>
        LET present == Present(yearly_df)
        IN  /\ \E j \in DOMAIN agg_df.cols :
                  /\ agg_df.cols[j] = "nenkan"
                  /\ ColumnSum(agg_df, j) = Cardinality(present)
            /\ \A m \in 1..12 :
                  \E j \in DOMAIN agg_df.cols :
                      /\ agg_df.cols[j] = MonthColumn(m)
                      /\ ColumnSum(agg_df, j)
                            = Cardinality({i \in present :
                                              dt_month(yearly_df[i].date) = m})

\* An aggregate of a grid with two records of the year in different months,
\* one with a condition and one without
C8_Witness ==
    /\ fpc = "agg"
    /\ Cardinality(Present(yearly_df)) = 1
    /\ \E i \in DOMAIN yearly_df :
          yearly_df[i].cond = Null /\ yearly_df[i].comment # Null

\* The number of the rows "present" of the grid with code c, in month m or
\* (m = 0) the year
Occurrences(present, c, m) ==
    Cardinality({i \in present :
                    /\ yearly_df[i].cond = Some(c)
                    /\ (m = 0 \/ dt_month(yearly_df[i].date) = m)})

\* C9: the written aggregate has the six codes 5,4,3,2,1,0 in this order, the
\* columns label, code, year, then January..December, and every count cell
\* holds the number of occurrences, 0 where there is none, never null.
C9_WrittenAggregateShape ==
    AggBuilt =>
        LET present == Present(yearly_df)
        IN  /\ written_agg.cols
                  = <<"choshi", "taicho", "nenkan">>
                        \o [m \in 1..12 |-> MonthColumn(m)]
            /\ Len(written_agg.rows) = 6
            /\ \A i \in 1..6 :
                  /\ Len(written_agg.rows[i]) = 15
                  /\ written_agg.rows[i][1] # Null
                  /\ written_agg.rows[i][2] = Some(6 - i)
                  /\ \A m \in 0..12 :
                        written_agg.rows[i][3 + m]
                            = Some(Occurrences(present, 6 - i, m))

\* A written aggregate with a code that occurs and a code that does not
C9_Witness ==
    /\ fpc = "agg"
    /\ \E c \in CondCodes : Occurrences(Present(yearly_df), c, 0) > 0
    /\ \E i \in 1..6 : \E j \in 3..15 : agg_df.rows[i][j] = Null

\* The rows of the groups, one group after the other
GroupedRows == Flatten([k \in DOMAIN groups |-> groups[k].rows])

\* C10: the groups are a partition of the input in its order: their rows one
\* after the other are the input, every group holds rows, all of its key's
\* year (month), and the keys ascend.
C10_PartitionIsPureGrouping ==
    /\ fpc = "by_year" =>
          /\ GroupedRows = df
          /\ \A k \in DOMAIN groups :
                /\ groups[k].rows # <<>>
                /\ dt_month(groups[k].key) = 1
                /\ dt_day(groups[k].key) = 1
                /\ \A i \in DOMAIN groups[k].rows :
                      dt_year(groups[k].rows[i].date)
                          = dt_year(groups[k].key)
          /\ \A k \in 1..(Len(groups) - 1) : groups[k].key < groups[k + 1].key
    /\ fpc = "by_month" =>
          /\ GroupedRows = yearly_df
          /\ \A k \in DOMAIN groups :
                /\ groups[k].rows # <<>>
                /\ dt_day(groups[k].key) = 1
                /\ \A i \in DOMAIN groups[k].rows :
                      /\ dt_year(groups[k].rows[i].date)
                            = dt_year(groups[k].key)
                      /\ dt_month(groups[k].rows[i].date)
                            = dt_month(groups[k].key)
          /\ \A k \in 1..(Len(groups) - 1) : groups[k].key < groups[k + 1].key

\* A series of two years partitioned by year
C10_Witness == fpc = "by_year" /\ Len(df) = 2 /\ Len(groups) = 2

====
